---- MODULE Spec2Model ----
(***************************************************************************)
(* A model of www/orm.py: the schema derivation done by ModelMetaclass,     *)
(* the Model runtime (attribute access, find, findAll, save, update,        *)
(* remove) and the two statement executors select and execute running over  *)
(* the aiomysql connection pool.                                            *)
(*                                                                          *)
(* SQL text is kept as a sequence of tokens.  A token is a record           *)
(* [q, s]: q = TRUE is the text s enclosed in backquotes, q = FALSE is the  *)
(* bare text s.  The placeholder is the bare token "?".                     *)
(***************************************************************************)
EXTENDS Integers, Sequences, FiniteSets, TLC

(***************************************************************************)
(* Python values                                                           *)
(***************************************************************************)
\* Python's None where an integer value is expected (values are 0, 1, 2, ...).
None == -1

\* Python's None where a string is expected (a descriptor's name, __table__).
NoneName == "<None>"

\* The values callers give a field, and the ones they give the primary key.
Values == {1, 2}
Keys == {1}

\* str(x) as used by the % formatting of a string or None.
Str(x) == IF x = NoneName THEN "None" ELSE x

\* Truth value of a string-or-None.
TruthyName(x) == x # NoneName /\ x # ""

\* x or y, for a string-or-None x.
OrName(x, y) == IF TruthyName(x) THEN x ELSE y

Tok(s) == [q |-> FALSE, s |-> s]
Quoted(s) == [q |-> TRUE, s |-> s]

\* Truth value of a piece of SQL text: the empty string only is false, and a
\* backquoted text has at least the two backquotes.
TruthyText(t) == (IF t.q THEN 2 ELSE 0) + Len(t.s) > 0

RECURSIVE Join(_, _)
\* sep.join(parts), each part a sequence of tokens.
Join(parts, sep) ==
    IF parts = <<>> THEN <<>>
    ELSE IF Len(parts) = 1 THEN parts[1]
    ELSE parts[1] \o <<sep>> \o Join(Tail(parts), sep)

RECURSIVE Repeat(_, _)
\* [x] * num
Repeat(x, num) == IF num <= 0 THEN <<>> ELSE <<x>> \o Repeat(x, num - 1)

\* orm.py create_args_string: ','.join(['?'] * num)
create_args_string(num) == Join(Repeat(<<Tok("?")>>, num), Tok(","))

\* The number of placeholders of a statement: the occurrences of "?".
RECURSIVE CountMarker(_, _)
CountMarker(sql, m) ==
    IF sql = <<>> THEN 0
    ELSE (IF sql[1].s = m THEN 1 ELSE 0) + CountMarker(Tail(sql), m)

\* sql.replace('?', '%s')
ReplaceMarker(sql) ==
    [i \in 1..Len(sql) |-> IF sql[i].s = "?" THEN [sql[i] EXCEPT !.s = "%s"] ELSE sql[i]]

(***************************************************************************)
(* Field descriptors                                                       *)
(***************************************************************************)
NoDefault == [kind |-> "none", v |-> None]
Literal(v) == [kind |-> "literal", v |-> v]
Factory(v) == [kind |-> "callable", v |-> v]

Field(name, column_type, primary_key, default) ==
    [name |-> name, column_type |-> column_type,
     primary_key |-> primary_key, default |-> default]

StringField(name, primary_key, default) ==
    Field(name, "varchar(255)", primary_key, default)

IntegerField(name, primary_key, default) ==
    Field(name, "bigint", primary_key, default)

(***************************************************************************)
(* Class bodies given to the metaclass                                     *)
(***************************************************************************)
\* The attribute names a class body declares fields under, in this order.
AttrNames == <<"id", "name", "email">>

\* A column name that differs from the attribute name.
ColumnFor(attr) ==
    CASE attr = "id" -> "uid"
      [] attr = "name" -> "uname"
      [] OTHER -> "mail"

\* The descriptors a class body may bind to attribute attr:
\*   IntegerField()                      no name, default 0
\*   StringField('<column>')             a name other than the attribute's
\*   StringField('<attr>', default=f)    the attribute's name, a factory default
\* each with primary_key False or True.
FieldChoices(attr) ==
    UNION {{IntegerField(NoneName, p, Literal(0)),
            StringField(ColumnFor(attr), p, NoDefault),
            StringField(attr, p, Factory(2))} : p \in BOOLEAN}

RECURSIVE BodiesOf(_)
\* The class bodies that bind the first n attributes, in declaration order,
\* each to one of its descriptors.
BodiesOf(n) ==
    IF n = 0 THEN {<<>>}
    ELSE {Append(b, [k |-> AttrNames[n], v |-> f]) :
            b \in BodiesOf(n - 1), f \in FieldChoices(AttrNames[n])}

\* The Field attributes of a class body: the first n attributes, any n.
Bodies == UNION {BodiesOf(n) : n \in 0..Len(AttrNames)}

\* The __table__ attribute of a class body: absent (None) or a string.
TableAttrs == {NoneName, "user"}

(***************************************************************************)
(* ModelMetaclass.__new__                                                  *)
(***************************************************************************)
NoErr == "ok"
DuplicateKeyError == "RuntimeError: Duplicate primary key for field"
NoKeyError == "RuntimeError: Primary key not found."

RECURSIVE ScanAttrsLastWins(_, _, _, _)
\* ScanAttrs without the test for a second primary key: the last one wins.
ScanAttrsLastWins(body, i, fields, primaryKey) ==
    IF i > Len(body)
    THEN [err |-> IF ~TruthyName(primaryKey) THEN NoKeyError ELSE NoErr,
          fields |-> fields, primaryKey |-> primaryKey]
    ELSE IF body[i].v.primary_key
         THEN ScanAttrsLastWins(body, i + 1, fields, body[i].k)
         ELSE ScanAttrsLastWins(body, i + 1, Append(fields, body[i].k), primaryKey)

RECURSIVE ScanAttrs(_, _, _, _)
\* for k, v in attrs.items(): ... ; followed by the test of primaryKey
ScanAttrs(body, i, fields, primaryKey) ==
    IF i > Len(body)
    THEN [err |-> IF ~TruthyName(primaryKey) THEN NoKeyError ELSE NoErr,
          fields |-> fields, primaryKey |-> primaryKey]
    ELSE IF body[i].v.primary_key
         THEN IF TruthyName(primaryKey)
              THEN [err |-> DuplicateKeyError, fields |-> fields,
                    primaryKey |-> primaryKey]
              ELSE ScanAttrs(body, i + 1, fields, body[i].k)
         ELSE ScanAttrs(body, i + 1, Append(fields, body[i].k), primaryKey)

\* mappings.get(k)
MappingOf(body, k) == body[CHOOSE i \in 1..Len(body) : body[i].k = k].v

\* '`%s`' % mappings.get(f).name or f : the % binds tighter than the or
EscapedField(body, f) ==
    LET text == Quoted(Str(MappingOf(body, f).name))
    IN  IF TruthyText(text) THEN text ELSE Tok(f)

escaped_fields(body, fields) ==
    [i \in 1..Len(fields) |-> EscapedField(body, fields[i])]

\* mappings.get(primaryKey).name or primaryKey
PkColumn(body, primaryKey) == OrName(MappingOf(body, primaryKey).name, primaryKey)

\* 'select `%s`, %s from `%s`' % (pk, ','.join(escaped_fields), tableName)
SelectTemplate(pk, escaped, tableName) ==
    <<Tok("select"), Quoted(pk), Tok(",")>>
      \o Join([i \in 1..Len(escaped) |-> <<escaped[i]>>], Tok(","))
      \o <<Tok("from"), Quoted(tableName)>>

\* 'insert into `%s` (`%s`, %s) values(%s)' %
\*     (tableName, pk, ','.join(escaped_fields), create_args_string(len(fields) + 1))
InsertTemplate(pk, escaped, tableName, fields) ==
    <<Tok("insert into"), Quoted(tableName), Tok("("), Quoted(pk), Tok(",")>>
      \o Join([i \in 1..Len(escaped) |-> <<escaped[i]>>], Tok(","))
      \o <<Tok(")"), Tok("values(")>>
      \o create_args_string(Len(fields) + 1)
      \o <<Tok(")")>>

\* 'update `%s` set %s where `%s` = ?' %
\*     (tableName, ','.join(map(lambda f: '%s=?' % f, escaped_fields)), pk)
UpdateTemplate(pk, escaped, tableName) ==
    <<Tok("update"), Quoted(tableName), Tok("set")>>
      \o Join([i \in 1..Len(escaped) |-> <<escaped[i], Tok("="), Tok("?")>>], Tok(","))
      \o <<Tok("where"), Quoted(pk), Tok("="), Tok("?")>>

\* 'delete from `%s` where `%s` = ?' % (tableName, pk)
DeleteTemplate(pk, tableName) ==
    <<Tok("delete from"), Quoted(tableName), Tok("where"), Quoted(pk), Tok("="), Tok("?")>>

\* The class before its class statement has run, and a class statement that
\* raised: no model type exists.
NoClass(status, err) ==
    [status |-> status, err |-> err, mappings |-> <<>>, table |-> "",
     primary_key |-> "", fields |-> <<>>, select |-> <<>>, insert |-> <<>>,
     update |-> <<>>, delete |-> <<>>]

\* ModelMetaclass.__new__(cls, name, bases, attrs) for name # 'Model': attrs
\* holds __table__ (or not) and the Field attributes of body.
ModelMetaclass_new(name, table, body) ==
    LET tableName == OrName(table, name)
        scan == ScanAttrs(body, 1, <<>>, NoneName)
        escaped == escaped_fields(body, scan.fields)
        pk == PkColumn(body, scan.primaryKey)
    IN  IF scan.err # NoErr THEN NoClass("error", scan.err)
        ELSE [status |-> "defined", err |-> NoErr,
              mappings |-> body,
              table |-> tableName,
              primary_key |-> scan.primaryKey,
              fields |-> scan.fields,
              select |-> SelectTemplate(pk, escaped, tableName),
              insert |-> InsertTemplate(pk, escaped, tableName, scan.fields),
              update |-> UpdateTemplate(pk, escaped, tableName),
              delete |-> DeleteTemplate(pk, tableName)]

\* The attributes of a model class after its class statement.
ClassAttrs ==
    {"__mappings__", "__table__", "__primary_key__", "__fields__",
     "__select__", "__insert__", "__update__", "__delete__"}

(***************************************************************************)
(* Model: a dict with attribute access                                     *)
(***************************************************************************)
AttributeError == "AttributeError"
TypeError == "TypeError"

\* Model(**kw) with no keyword.
EmptyInst == [k \in {} |-> None]

\* Model.__setattr__: self[key] = value
SetAttr(inst, key, value) ==
    [k \in DOMAIN inst \cup {key} |-> IF k = key THEN value ELSE inst[k]]

\* Model.__getattr__, called when the normal lookup finds no attribute:
\* self[key], a KeyError becoming an AttributeError.
GetAttr(inst, key) ==
    IF key \in DOMAIN inst THEN [err |-> NoErr, value |-> inst[key]]
    ELSE [err |-> AttributeError, value |-> None]

\* getattr(self, key, None) for a key that is no attribute of the class.
GetAttrOrNone(inst, key) ==
    LET r == GetAttr(inst, key) IN IF r.err = NoErr THEN r.value ELSE None

\* Model.getValue
getValue(inst, key) == GetAttrOrNone(inst, key)

\* The attribute getValueOrDefault reads the descriptors from.
MappingAttr == "__mapping__"

\* field.default() if callable(field.default) else field.default
ResolveDefault(default) == default.v

\* Model.getValueOrDefault: the value returned, the error raised and the
\* instance afterwards.
getValueOrDefault(c, inst, key) ==
    LET value == GetAttrOrNone(inst, key)
    IN  IF value # None THEN [err |-> NoErr, value |-> value, inst |-> inst]
        ELSE IF MappingAttr \notin ClassAttrs
             THEN \* self.__mapping__ goes to __getattr__
                  IF GetAttr(inst, MappingAttr).err # NoErr
                  THEN [err |-> AttributeError, value |-> None, inst |-> inst]
                  ELSE \* an instance value is subscripted with key
                       [err |-> TypeError, value |-> None, inst |-> inst]
             ELSE LET field == MappingOf(c.mappings, key)
                  IN  IF field.default.kind # "none"
                      THEN LET v == ResolveDefault(field.default)
                           IN  [err |-> NoErr, value |-> v,
                                inst |-> SetAttr(inst, key, v)]
                      ELSE [err |-> NoErr, value |-> None, inst |-> inst]

(***************************************************************************)
(* The database behind the driver: one table, laid out as the class body   *)
(* describes it (a column per field, named by the descriptor's name or,    *)
(* without one, by the attribute), with the primary key column unique and  *)
(* not null.  db maps the key values present to their rows.                *)
(***************************************************************************)
ProgrammingError == "ProgrammingError"
OperationalError == "OperationalError"
IntegrityError == "IntegrityError"

TableColumns(body) == {OrName(body[i].v.name, body[i].k) : i \in 1..Len(body)}

TableKey(body) ==
    LET i == CHOOSE j \in 1..Len(body) : body[j].v.primary_key
    IN  OrName(body[i].v.name, body[i].k)

EmptyDb == [k \in {} |-> EmptyInst]

\* The position of the first bare token s in sql, 0 if there is none.
IndexOfTok(sql, s) ==
    IF \E i \in 1..Len(sql) : sql[i] = Tok(s)
    THEN CHOOSE i \in 1..Len(sql) :
            sql[i] = Tok(s) /\ \A j \in 1..(i - 1) : sql[j] # Tok(s)
    ELSE 0

IsQuoted(t) == t.q

\* The backquoted names among sql[lo..hi], in order.
QuotedIn(sql, lo, hi) ==
    LET qs == SelectSeq(SubSeq(sql, lo, hi), IsQuoted)
    IN  [i \in 1..Len(qs) |-> qs[i].s]

\* A list with a missing element is a syntax error.
SyntaxOk(sql) ==
    \A i \in 1..(Len(sql) - 1) :
        /\ ~(sql[i] = Tok(",") /\ sql[i + 1] \in {Tok("from"), Tok(")"), Tok("where")})
        /\ ~(sql[i] = Tok("set") /\ sql[i + 1] = Tok("where"))

\* The argument bound to the marker at position pos of sql.
ArgAt(sql, args, pos) == args[CountMarker(SubSeq(sql, 1, pos), "%s")]

NoDuplicates(seq) == \A i, j \in 1..Len(seq) : seq[i] = seq[j] => i = j

Range(seq) == {seq[i] : i \in 1..Len(seq)}

RECURSIVE SortedSeq(_)
\* The elements of a set of integers in ascending order.
SortedSeq(S) ==
    IF S = {} THEN <<>>
    ELSE LET m == CHOOSE x \in S : \A y \in S : x <= y
         IN  <<m>> \o SortedSeq(S \ {m})

Reverse(seq) == [i \in 1..Len(seq) |-> seq[Len(seq) + 1 - i]]

\* cursor.execute(query, args) in the driver: query % args, which raises
\* unless there is one argument per marker.
Mogrify(sql, args) ==
    IF CountMarker(sql, "%s") = Len(args) THEN NoErr ELSE TypeError

\* The rows a where clause `col` op %s selects.
Matching(db, col, op, value) ==
    {k \in DOMAIN db :
        /\ value # None
        /\ db[k][col] # None
        /\ IF op = "=" THEN db[k][col] = value ELSE db[k][col] > value}

\* The names a statement uses all are columns of the table.
KnownColumns(body, names) == Range(names) \subseteq TableColumns(body)

\* insert into `t` (cols) values(markers)
DbInsert(body, db, sql, args) ==
    LET cols == QuotedIn(sql, 3, IndexOfTok(sql, ")"))
        key == TableKey(body)
        row == [c \in TableColumns(body) |->
                  IF c \in Range(cols)
                  THEN args[CHOOSE i \in 1..Len(cols) : cols[i] = c]
                  ELSE None]
    IN  IF ~SyntaxOk(sql) \/ Len(cols) # Len(args) \/ ~NoDuplicates(cols)
        THEN [err |-> ProgrammingError, rows |-> 0, db |-> db]
        ELSE IF ~KnownColumns(body, cols)
        THEN [err |-> OperationalError, rows |-> 0, db |-> db]
        ELSE IF row[key] = None \/ row[key] \in DOMAIN db
        THEN [err |-> IntegrityError, rows |-> 0, db |-> db]
        ELSE [err |-> NoErr, rows |-> 1,
              db |-> [k \in DOMAIN db \cup {row[key]} |->
                        IF k = row[key] THEN row ELSE db[k]]]

\* update `t` set `c`=%s, ... where `col` = %s ; the count is of the rows changed
DbUpdate(body, db, sql, args) ==
    LET w == IndexOfTok(sql, "where")
        cols == QuotedIn(sql, 3, w - 1)
        col == sql[w + 1].s
        hit == Matching(db, col, sql[w + 2].s, ArgAt(sql, args, w + 3))
        new(k) == [c \in TableColumns(body) |->
                     IF c \in Range(cols)
                     THEN args[CHOOSE i \in 1..Len(cols) : cols[i] = c]
                     ELSE db[k][c]]
        changed == {k \in hit : new(k) # db[k]}
    IN  IF ~SyntaxOk(sql) \/ ~NoDuplicates(cols)
        THEN [err |-> ProgrammingError, rows |-> 0, db |-> db]
        ELSE IF ~KnownColumns(body, cols \o <<col>>)
        THEN [err |-> OperationalError, rows |-> 0, db |-> db]
        ELSE IF TableKey(body) \in Range(cols) /\ changed # {}
        THEN [err |-> IntegrityError, rows |-> 0, db |-> db]
        ELSE [err |-> NoErr, rows |-> Cardinality(changed),
              db |-> [k \in DOMAIN db |-> IF k \in changed THEN new(k) ELSE db[k]]]

\* delete from `t` where `col` = %s
DbDelete(body, db, sql, args) ==
    LET w == IndexOfTok(sql, "where")
        col == sql[w + 1].s
        hit == Matching(db, col, sql[w + 2].s, ArgAt(sql, args, w + 3))
    IN  IF ~KnownColumns(body, <<col>>)
        THEN [err |-> OperationalError, rows |-> 0, db |-> db]
        ELSE [err |-> NoErr, rows |-> Cardinality(hit),
              db |-> [k \in DOMAIN db \ hit |-> db[k]]]

\* A mutating statement, by its first word.
DbExecute(body, db, sql, args) ==
    IF Mogrify(sql, args) # NoErr
    THEN [err |-> Mogrify(sql, args), rows |-> 0, db |-> db]
    ELSE CASE sql[1] = Tok("insert into") -> DbInsert(body, db, sql, args)
           [] sql[1] = Tok("update") -> DbUpdate(body, db, sql, args)
           [] OTHER -> DbDelete(body, db, sql, args)

\* select cols from `t` [where `col` op %s] [order by `col` desc] [limit %s[, %s]]
\* The result set: the rows in key order, each a mapping from the selected
\* column names to values.
DbSelect(body, db, sql, args) ==
    LET f == IndexOfTok(sql, "from")
        w == IndexOfTok(sql, "where")
        o == IndexOfTok(sql, "order by")
        l == IndexOfTok(sql, "limit")
        cols == QuotedIn(sql, 2, f - 1)
        used == cols \o (IF w = 0 THEN <<>> ELSE <<sql[w + 1].s>>)
        hit == IF w = 0 THEN DOMAIN db
               ELSE Matching(db, sql[w + 1].s, sql[w + 2].s, ArgAt(sql, args, w + 3))
        keys == IF o = 0 THEN SortedSeq(hit) ELSE Reverse(SortedSeq(hit))
        two == l # 0 /\ Len(sql) >= l + 3
        offset == IF two THEN ArgAt(sql, args, l + 1) ELSE 0
        count == IF l = 0 THEN Len(keys)
                 ELSE IF two THEN ArgAt(sql, args, l + 3) ELSE ArgAt(sql, args, l + 1)
        page == SubSeq(keys, offset + 1, IF offset + count > Len(keys)
                                          THEN Len(keys) ELSE offset + count)
    IN  IF Mogrify(sql, args) # NoErr
        THEN [err |-> Mogrify(sql, args), rs |-> <<>>]
        ELSE IF ~SyntaxOk(sql) THEN [err |-> ProgrammingError, rs |-> <<>>]
        ELSE IF ~KnownColumns(body, used) THEN [err |-> OperationalError, rs |-> <<>>]
        ELSE [err |-> NoErr,
              rs |-> [i \in 1..Len(page) |->
                        [c \in Range(cols) |-> db[page[i]][c]]]]

(***************************************************************************)
(* select and execute, run to completion on a connection of their own      *)
(* (autocommit as the pool is configured, the connection staying up).      *)
(***************************************************************************)
\* cur.fetchmany(size) if size else cur.fetchall()
Fetch(rs, size) ==
    IF size # None /\ size # 0
    THEN SubSeq(rs, 1, IF size < Len(rs) THEN size ELSE Len(rs))
    ELSE rs

\* orm.select(sql, args, size)
select(body, db, sql, args, size) ==
    LET r == DbSelect(body, db, ReplaceMarker(sql), args)
    IN  IF r.err # NoErr THEN r
        ELSE [err |-> NoErr, rs |-> Fetch(r.rs, size)]

\* orm.execute(sql, args) with autocommit=True: the count of affected rows,
\* or the error of the statement re-raised.
execute(body, db, sql, args) == DbExecute(body, db, ReplaceMarker(sql), args)

(***************************************************************************)
(* Model.find, findAll, save, update, remove                               *)
(***************************************************************************)
\* What a call leaves behind for its caller and in the log.
NoCall ==
    [op |-> "none", key |-> "", sql |-> <<>>, args |-> <<>>, executed |-> FALSE,
     execErr |-> NoErr, rows |-> 0, warned |-> FALSE, err |-> NoErr,
     value |-> None, found |-> FALSE, instances |-> <<>>, before |-> EmptyInst,
     passed |-> FALSE, argsBefore |-> <<>>, limit |-> <<>>]

\* if rows != 1: logging.warn(...)
Warned(rows) == rows # 1

\* RowCheck raising on a count other than 1.
RowCheckStrict(rows) == IF rows # 1 THEN "RuntimeError" ELSE NoErr

\* What a mutation raises once execute has returned rows: nothing.
RowCheck(rows) == NoErr

\* '%s where `%s` = ?' % (cls.__select__, cls.__primary_key__)
FindStatement(c) ==
    c.select \o <<Tok("where"), Quoted(c.primary_key), Tok("="), Tok("?")>>

\* cls.find(pk)
find(c, db, pk) ==
    LET sql == FindStatement(c)
        r == select(c.mappings, db, sql, <<pk>>, 1)
    IN  [NoCall EXCEPT !.op = "find", !.sql = sql, !.args = <<pk>>,
            !.executed = TRUE, !.execErr = r.err, !.err = r.err,
            !.found = (r.err = NoErr /\ Len(r.rs) # 0),
            !.instances = IF r.err = NoErr /\ Len(r.rs) # 0 THEN <<r.rs[1]>> ELSE <<>>]

RECURSIVE MapValueOrDefault(_, _, _, _, _)
\* list(map(self.getValueOrDefault, self.__fields__))
MapValueOrDefault(c, inst, fields, i, acc) ==
    IF i > Len(fields) THEN [err |-> NoErr, args |-> acc, inst |-> inst]
    ELSE LET r == getValueOrDefault(c, inst, fields[i])
         IN  IF r.err # NoErr THEN [err |-> r.err, args |-> acc, inst |-> r.inst]
             ELSE MapValueOrDefault(c, r.inst, fields, i + 1, Append(acc, r.value))

\* InsertFirst putting the key last.
InsertLast(args, x) == Append(args, x)

\* args.insert(0, x)
InsertFirst(args, x) == <<x>> \o args

\* The record of a mutation that reached execute.
Executed(call, sql, args, r) ==
    [call EXCEPT !.sql = sql, !.args = args, !.executed = TRUE,
        !.execErr = r.err, !.rows = r.rows,
        !.warned = (r.err = NoErr /\ Warned(r.rows)),
        !.err = IF r.err # NoErr THEN r.err ELSE RowCheck(r.rows)]

\* inst.save(): the call record, the instance and the table afterwards
save(c, inst, db) ==
    LET m == MapValueOrDefault(c, inst, c.fields, 1, <<>>)
        k == getValueOrDefault(c, m.inst, c.primary_key)
        args == InsertFirst(m.args, k.value)
        r == execute(c.mappings, db, c.insert, args)
        call == [NoCall EXCEPT !.op = "save", !.before = inst]
    IN  IF m.err # NoErr
        THEN [call |-> [call EXCEPT !.err = m.err], inst |-> m.inst, db |-> db]
        ELSE IF k.err # NoErr
        THEN [call |-> [call EXCEPT !.err = k.err], inst |-> k.inst, db |-> db]
        ELSE [call |-> Executed(call, c.insert, args, r), inst |-> k.inst, db |-> r.db]

\* list(map(self.getValue, self.__fields__))
MapValue(inst, fields) == [i \in 1..Len(fields) |-> getValue(inst, fields[i])]

\* inst.update()
update(c, inst, db) ==
    LET args == Append(MapValue(inst, c.fields), getValue(inst, c.primary_key))
        r == execute(c.mappings, db, c.update, args)
        call == [NoCall EXCEPT !.op = "update", !.before = inst]
    IN  [call |-> Executed(call, c.update, args, r), inst |-> inst, db |-> r.db]

\* inst.remove()
remove(c, inst, db) ==
    LET args == <<getValue(inst, c.primary_key)>>
        r == execute(c.mappings, db, c.delete, args)
        call == [NoCall EXCEPT !.op = "remove", !.before = inst]
    IN  [call |-> Executed(call, c.delete, args, r), inst |-> inst, db |-> r.db]

ValueError == "ValueError"

\* The limit keyword of findAll: its type and its items (an integer or a
\* boolean has one item, a string one item per character).
NoLimit == [kind |-> "none", items |-> <<>>]
IntLimit(n) == [kind |-> "int", items |-> <<n>>]
TupleLimit(items) == [kind |-> "tuple", items |-> items]

\* if limit:
TruthyLimit(limit) ==
    CASE limit.kind = "none" -> FALSE
      [] limit.kind \in {"int", "bool"} -> limit.items[1] # 0
      [] OTHER -> Len(limit.items) > 0

\* isinstance(limit, int): a bool is an int
IsInt(limit) == limit.kind \in {"int", "bool"}

\* isinstance(limit, tuple) and len(limit) == 2
IsPair(limit) == limit.kind = "tuple" /\ Len(limit.items) = 2

\* The list findAll binds the limit into: the caller's own list when one was
\* passed (args.append and args.extend change it in place).
AfterCall(passed, list, args) == IF passed THEN args ELSE list

\* cls.findAll(where, args, orderBy=..., limit=...): where and orderBy are
\* clauses (empty when not given), passed tells whether args was given, list is
\* the list given.  Returns the call record and the caller's list afterwards.
findAll(c, db, where, passed, list, orderBy, limit) ==
    LET sql1 == c.select \o (IF where # <<>> THEN <<Tok("where")>> \o where ELSE <<>>)
        args1 == IF passed THEN list ELSE <<>>
        sql2 == sql1 \o (IF orderBy # <<>> THEN <<Tok("order by")>> \o orderBy ELSE <<>>)
        bad == TruthyLimit(limit) /\ ~IsInt(limit) /\ ~IsPair(limit)
        sql3 == IF ~TruthyLimit(limit) THEN sql2
                ELSE IF IsInt(limit) THEN sql2 \o <<Tok("limit"), Tok("?")>>
                ELSE sql2 \o <<Tok("limit"), Tok("?"), Tok(","), Tok("?")>>
        args3 == IF ~TruthyLimit(limit) THEN args1
                 ELSE IF IsInt(limit) THEN Append(args1, limit.items[1])
                 ELSE args1 \o limit.items
        r == select(c.mappings, db, sql3, args3, None)
        call == [NoCall EXCEPT !.op = "findAll", !.passed = passed,
                    !.argsBefore = args1, !.limit = limit.items, !.key = limit.kind]
    IN  IF bad
        THEN [call |-> [call EXCEPT !.err = ValueError], list |-> list]
        ELSE [call |-> [call EXCEPT !.sql = sql3, !.args = args3, !.executed = TRUE,
                           !.execErr = r.err, !.err = r.err, !.instances = r.rs],
              list |-> AfterCall(passed, list, args3)]

(***************************************************************************)
(* The program: a class statement, then calls on the model                 *)
(***************************************************************************)
VARIABLES
    decl,        \* the class body: [table, body]
    cls,         \* the model class the class statement produced
    made,        \* an instance has been constructed
    inst,        \* the instance the caller works on
    db,          \* the rows of the table
    callerArgs,  \* a list the caller keeps and passes to findAll
    last,        \* what the last call did
    calls,       \* the select and execute calls in flight, one per task
    conns        \* the connections of the pool

ormVars == <<decl, cls, made, inst, db, callerArgs, last>>
poolVars == <<calls, conns>>
vars == <<decl, cls, made, inst, db, callerArgs, last, calls, conns>>

\* class User(Model) of orm.py
UserDecl ==
    [table |-> "user",
     body |-> <<[k |-> "id", v |-> IntegerField("id", TRUE, Literal(0))],
                [k |-> "name", v |-> StringField("name", FALSE, NoDefault)]>>]

\* A model whose key has a factory default, one field a literal default and
\* one field no default; __table__ is not given.
BlogDecl ==
    [table |-> NoneName,
     body |-> <<[k |-> "name", v |-> StringField("name", FALSE, NoDefault)],
                [k |-> "id", v |-> StringField("id", TRUE, Factory(1))],
                [k |-> "email", v |-> IntegerField("email", FALSE, Literal(0))]>>]

\* A model declared without names, the column being the attribute.
PlainDecl ==
    [table |-> NoneName,
     body |-> <<[k |-> "id", v |-> IntegerField(NoneName, TRUE, Literal(0))],
                [k |-> "name", v |-> StringField(NoneName, FALSE, NoDefault)]>>]

ClassName == "User"

\* class User(Model): ...
DefineModel ==
    /\ cls.status = "undefined"
    /\ cls' = ModelMetaclass_new(ClassName, decl.table, decl.body)
    /\ UNCHANGED <<decl, made, inst, db, callerArgs, last, poolVars>>

Declared == {decl.body[i].k : i \in 1..Len(decl.body)}

\* The values a caller gives the attribute key.
ValuesOf(key) == IF key = cls.primary_key THEN Keys ELSE Values

\* User(**kw), any of the fields given
New ==
    /\ cls.status = "defined"
    /\ \E keys \in SUBSET Declared : \E kw \in [keys -> Values] :
          /\ \A k \in keys : kw[k] \in ValuesOf(k)
          /\ inst' = kw
    /\ made' = TRUE
    /\ last' = [NoCall EXCEPT !.op = "new"]
    /\ UNCHANGED <<decl, cls, db, callerArgs, poolVars>>

\* User(**kw), every field given
NewFull ==
    /\ cls.status = "defined"
    /\ \E kw \in [Declared -> Values] :
          /\ \A k \in Declared : kw[k] \in ValuesOf(k)
          /\ inst' = kw
    /\ made' = TRUE
    /\ last' = [NoCall EXCEPT !.op = "new"]
    /\ UNCHANGED <<decl, cls, db, callerArgs, poolVars>>

\* inst.key = value
SetAttribute ==
    /\ made
    /\ \E key \in Declared : \E value \in ValuesOf(key) \cup {None} :
          /\ inst' = SetAttr(inst, key, value)
          /\ last' = [NoCall EXCEPT !.op = "setattr", !.key = key, !.before = inst]
    /\ UNCHANGED <<decl, cls, made, db, callerArgs, poolVars>>

\* inst.key
GetAttribute ==
    /\ made
    /\ \E key \in Declared :
          LET r == GetAttr(inst, key)
          IN  last' = [NoCall EXCEPT !.op = "getattr", !.key = key, !.before = inst,
                          !.err = r.err, !.value = r.value]
    /\ UNCHANGED <<decl, cls, made, inst, db, callerArgs, poolVars>>

\* inst.getValueOrDefault(key)
GetValueOrDefault ==
    /\ made
    /\ \E key \in Declared :
          LET r == getValueOrDefault(cls, inst, key)
          IN  /\ inst' = r.inst
              /\ last' = [NoCall EXCEPT !.op = "getValueOrDefault", !.key = key,
                             !.before = inst, !.err = r.err, !.value = r.value]
    /\ UNCHANGED <<decl, cls, made, db, callerArgs, poolVars>>

Mutation(r) ==
    /\ inst' = r.inst
    /\ db' = r.db
    /\ last' = r.call
    /\ UNCHANGED <<decl, cls, made, callerArgs, poolVars>>

\* await inst.save()
Save == made /\ Mutation(save(cls, inst, db))

\* await inst.update()
Update == made /\ Mutation(update(cls, inst, db))

\* await inst.remove()
Remove == made /\ Mutation(remove(cls, inst, db))

\* await User.find(pk)
Find ==
    /\ cls.status = "defined"
    /\ \E pk \in Values : last' = find(cls, db, pk)
    /\ UNCHANGED <<decl, cls, made, inst, db, callerArgs, poolVars>>

\* The where clause callers give: `key` > ?
WhereClause == <<Quoted(TableKey(decl.body)), Tok(">"), Tok("?")>>

\* The order by clause callers give: `key` desc
OrderByClause == <<Quoted(TableKey(decl.body)), Tok("desc")>>

\* The longest list of arguments a caller is let pass to findAll.
MaxArgs == 3

\* The limits callers give findAll.
Limits ==
    {NoLimit, IntLimit(0), IntLimit(1), [kind |-> "bool", items |-> <<1>>],
     TupleLimit(<<>>), TupleLimit(<<0, 2>>), TupleLimit(<<1, 1, 1>>),
     [kind |-> "list", items |-> <<0, 1>>], [kind |-> "str", items |-> <<>>],
     [kind |-> "str", items |-> <<1>>]}

\* args = [...]: the caller makes a list for the where clause
NewArgs ==
    /\ cls.status = "defined"
    /\ \E list \in {<<>>, <<0>>} :
          /\ list # callerArgs
          /\ callerArgs' = list
    /\ last' = [NoCall EXCEPT !.op = "newargs"]
    /\ UNCHANGED <<decl, cls, made, inst, db, poolVars>>

\* await User.findAll(where, args, orderBy=..., limit=...)
FindAll ==
    /\ cls.status = "defined"
    /\ \E where \in {<<>>, WhereClause}, passed \in BOOLEAN,
          orderBy \in {<<>>, OrderByClause}, limit \in Limits :
          LET r == findAll(cls, db, where, passed, callerArgs, orderBy, limit)
          IN  /\ Len(r.list) <= MaxArgs
              /\ callerArgs' = r.list
              /\ last' = r.call
    /\ UNCHANGED <<decl, cls, made, inst, db, poolVars>>

(***************************************************************************)
(* select and execute, step by step, as tasks of the event loop over the   *)
(* pool.  A task is suspended at each await: pool.acquire, conn.begin,     *)
(* cur.execute, cur.fetch*, conn.commit, conn.rollback.                    *)
(***************************************************************************)
\* The tasks that call select and execute.
NumTasks == 2

\* maxsize of the pool (create_pool's maxsize option).
MaxSize == 1

Tasks == 1..NumTasks

\* The connections the driver can open; the pool keeps at most MaxSize open.
ConnIds == 1..NumTasks

StatementError == "StatementError"
BeginError == "BeginError"
CommitError == "CommitError"
RollbackError == "RollbackError"
FetchError == "FetchError"

IdleCall ==
    [fn |-> "none", autocommit |-> TRUE, pc |-> "idle", conn |-> 0, log |-> <<>>,
     error |-> NoErr, raised |-> NoErr, failed |-> FALSE, committed |-> FALSE,
     rolledBack |-> "no"]

ClosedConn == [state |-> "closed", owner |-> 0, inTxn |-> FALSE, pending |-> FALSE]

PoolInit ==
    /\ calls = [t \in Tasks |-> IdleCall]
    /\ conns = [c \in ConnIds |-> ClosedConn]

Open(cs) == {c \in ConnIds : cs[c].state # "closed"}
CheckedOut(cs) == {c \in ConnIds : cs[c].state = "used"}

\* The pool opens a connection only below maxsize.
CanOpen(cs) == Cardinality(Open(cs)) < MaxSize

\* The connections pool.acquire may hand out: a free one, else a new one.
Available(cs) ==
    IF \E c \in ConnIds : cs[c].state = "free"
    THEN {c \in ConnIds : cs[c].state = "free"}
    ELSE IF CanOpen(cs)
         THEN {CHOOSE c \in ConnIds :
                  cs[c].state = "closed" /\ \A d \in ConnIds : cs[d].state = "closed" => c <= d}
         ELSE {}

\* Release leaving the connection with its task.
ReleaseNever(cs, c) == cs

\* pool.release(conn) at the exit of `async with pool.acquire() as conn`: the
\* connection goes back to the pool; one still in a transaction is closed, which
\* discards what the transaction wrote.
Release(cs, c) ==
    [cs EXCEPT ![c] = IF cs[c].inTxn THEN ClosedConn
                      ELSE [state |-> "free", owner |-> 0, inTxn |-> FALSE,
                            pending |-> FALSE]]

\* if not autocommit: (before conn.begin, conn.commit and conn.rollback)
Transactional(call) == ~call.autocommit

\* RollsBack with the test inverted.
RollsBackInverted(call) == ~Transactional(call)

\* The except clause rolls back when not autocommit.
RollsBack(call) == Transactional(call)

\* The call leaves `async with`: the connection is released, the result or the
\* error reaches the caller.
Leave(t, call, cs, err) ==
    /\ calls' = [calls EXCEPT ![t] =
                    [call EXCEPT !.pc = "done", !.conn = 0, !.raised = err,
                        !.log = Append(call.log, "release")]]
    /\ conns' = Release(cs, call.conn)

\* A task calls select(sql, args) or execute(sql, args, autocommit).
Call(t) ==
    /\ UNCHANGED ormVars
    /\ calls[t].pc = "idle"
    /\ \E fn \in {"select", "execute"}, autocommit \in BOOLEAN :
          /\ fn = "select" => autocommit
          /\ calls' = [calls EXCEPT ![t] =
                          [IdleCall EXCEPT !.fn = fn, !.autocommit = autocommit,
                              !.pc = "acquire"]]
    /\ UNCHANGED conns

\* async with __pool.acquire() as conn
Acquire(t) ==
    /\ UNCHANGED ormVars
    /\ calls[t].pc = "acquire"
    /\ \E c \in Available(conns) :
          /\ conns' = [conns EXCEPT ![c] = [state |-> "used", owner |-> t,
                                            inTxn |-> FALSE, pending |-> FALSE]]
          /\ calls' = [calls EXCEPT ![t] =
                          [calls[t] EXCEPT !.conn = c, !.log = Append(@, "acquire"),
                              !.pc = IF calls[t].fn = "execute" /\ Transactional(calls[t])
                                     THEN "begin" ELSE "run"]]

\* await conn.begin(), before the try
Begin(t) ==
    /\ UNCHANGED ormVars
    /\ calls[t].pc = "begin"
    /\ \E ok \in BOOLEAN :
          LET call == [calls[t] EXCEPT !.log = Append(@, "begin")]
          IN  IF ok
              THEN /\ calls' = [calls EXCEPT ![t] = [call EXCEPT !.pc = "run"]]
                   /\ conns' = [conns EXCEPT ![call.conn].inTxn = TRUE]
              ELSE Leave(t, call, conns, BeginError)

\* await cur.execute(sql.replace('?', '%s'), args)
Run(t) ==
    /\ UNCHANGED ormVars
    /\ calls[t].pc = "run"
    /\ \E ok \in BOOLEAN, partial \in BOOLEAN :
          LET call == [calls[t] EXCEPT !.log = Append(@, "execute")]
              c == call.conn
          IN  IF call.fn = "select"
              THEN /\ ~partial
                   /\ IF ok
                      THEN /\ calls' = [calls EXCEPT ![t] = [call EXCEPT !.pc = "fetch"]]
                           /\ UNCHANGED conns
                      ELSE Leave(t, [call EXCEPT !.failed = TRUE], conns, StatementError)
              ELSE IF ok
              THEN /\ ~partial
                   /\ calls' = [calls EXCEPT ![t] =
                          [call EXCEPT !.pc = IF Transactional(call) THEN "commit"
                                              ELSE "return",
                                       !.committed = ~conns[c].inTxn]]
                   /\ conns' = [conns EXCEPT ![c].pending = conns[c].inTxn]
              ELSE \* the statement fails: in a transaction a part of it may be written
                   /\ partial => conns[c].inTxn
                   /\ calls' = [calls EXCEPT ![t] =
                          [call EXCEPT !.pc = "except", !.failed = TRUE,
                                       !.error = StatementError]]
                   /\ conns' = [conns EXCEPT ![c].pending = partial]

\* await cur.fetchmany(size) or cur.fetchall(), then return rs
FetchRows(t) ==
    /\ UNCHANGED ormVars
    /\ calls[t].pc = "fetch"
    /\ \E ok \in BOOLEAN :
          Leave(t, [calls[t] EXCEPT !.log = Append(@, "fetch")], conns,
                IF ok THEN NoErr ELSE FetchError)

\* await conn.commit()
Commit(t) ==
    /\ UNCHANGED ormVars
    /\ calls[t].pc = "commit"
    /\ \E ok \in BOOLEAN :
          LET call == [calls[t] EXCEPT !.log = Append(@, "commit")]
              c == call.conn
          IN  IF ok
              THEN /\ calls' = [calls EXCEPT ![t] =
                          [call EXCEPT !.pc = "return", !.committed = conns[c].pending]]
                   /\ conns' = [conns EXCEPT ![c].pending = FALSE, ![c].inTxn = FALSE]
              ELSE /\ calls' = [calls EXCEPT ![t] =
                          [call EXCEPT !.pc = "except", !.error = CommitError]]
                   /\ UNCHANGED conns

\* except BaseException: rollback when not autocommit, then raise
Except(t) ==
    /\ UNCHANGED ormVars
    /\ calls[t].pc = "except"
    /\ \E ok \in BOOLEAN :
          LET call == calls[t]
              c == call.conn
          IN  IF RollsBack(call)
              THEN LET logged == [call EXCEPT !.log = Append(@, "rollback")]
                   IN  IF ok
                       THEN Leave(t, [logged EXCEPT !.rolledBack = "done"],
                                  [conns EXCEPT ![c].pending = FALSE, ![c].inTxn = FALSE],
                                  call.error)
                       ELSE Leave(t, [logged EXCEPT !.rolledBack = "failed"], conns,
                                  RollbackError)
              ELSE ok /\ Leave(t, call, conns, call.error)

\* return affected
Return(t) ==
    /\ UNCHANGED ormVars
    /\ calls[t].pc = "return"
    /\ Leave(t, calls[t], conns, NoErr)

\* The caller has its result; the task goes on to other work.
Finish(t) ==
    /\ UNCHANGED ormVars
    /\ calls[t].pc = "done"
    /\ calls' = [calls EXCEPT ![t] = IdleCall]
    /\ UNCHANGED conns

NextPool ==
    \/ \E t \in Tasks : Call(t)
    \/ \E t \in Tasks : Acquire(t)
    \/ \E t \in Tasks : Begin(t)
    \/ \E t \in Tasks : Run(t)
    \/ \E t \in Tasks : FetchRows(t)
    \/ \E t \in Tasks : Commit(t)
    \/ \E t \in Tasks : Except(t)
    \/ \E t \in Tasks : Return(t)
    \/ \E t \in Tasks : Finish(t)

InitOrm(decls) ==
    /\ decl \in decls
    /\ cls = NoClass("undefined", NoErr)
    /\ made = FALSE
    /\ inst = EmptyInst
    /\ db = EmptyDb
    /\ callerArgs = <<>>
    /\ last = NoCall
    /\ PoolInit

\* Any class body, then the calls that build statements from the schema.
InitSchema == InitOrm([table : TableAttrs, body : Bodies])
NextSchema == DefineModel \/ NewFull \/ Save \/ Update \/ Remove \/ Find
SpecSchema == InitSchema /\ [][NextSchema]_vars

\* The model classes above, and every call on an instance.
InitModel == InitOrm({UserDecl, BlogDecl, PlainDecl})
NextModel ==
    \/ DefineModel
    \/ New
    \/ SetAttribute
    \/ GetAttribute
    \/ GetValueOrDefault
    \/ Save
    \/ Update
    \/ Remove
    \/ Find
SpecModel == InitModel /\ [][NextModel]_vars

\* User, rows saved, and findAll called with a list the caller keeps.
InitFind == InitOrm({UserDecl})
NextFind == DefineModel \/ NewFull \/ Save \/ NewArgs \/ FindAll
SpecFind == InitFind /\ [][NextFind]_vars

\* The executors alone, under any interleaving of the tasks.
InitPool == InitOrm({UserDecl})
SpecPool == InitPool /\ [][NextPool]_vars

(***************************************************************************)
(* The properties                                                          *)
(***************************************************************************)
ExecuteCalls == {t \in Tasks : calls[t].fn = "execute" /\ calls[t].pc = "done"}

\* A call of execute(sql, args, autocommit=False) whose statement failed.
FailedInTransaction(t) ==
    t \in ExecuteCalls /\ ~calls[t].autocommit /\ calls[t].failed

\* The log holds a rollback after the statement and before the release that
\* ends the call, and no commit.
RolledBackNotCommitted(log) ==
    /\ \E i, j, k \in 1..Len(log) :
          i < j /\ j < k /\ log[i] = "execute" /\ log[j] = "rollback" /\ log[k] = "release"
    /\ \A i \in 1..Len(log) : log[i] # "commit"

\* No write waits uncommitted on a connection that is back in the pool.
NothingPending == \A c \in ConnIds : conns[c].state # "used" => ~conns[c].pending

\* C1 as claimed: when the statement of execute(sql, args, autocommit=False)
\* fails, a rollback is invoked before the error propagates, no commit is
\* invoked, nothing of the statement is committed, and the error that reaches
\* the caller is the statement's.
C1_OriginalErrorReraised ==
    \A t \in Tasks :
        FailedInTransaction(t) =>
            /\ RolledBackNotCommitted(calls[t].log)
            /\ ~calls[t].committed
            /\ calls[t].raised = StatementError

\* C1 amended: as above, but the error that reaches the caller is the
\* statement's when the rollback succeeds and the rollback's when it fails.
C1_RollbackThenRaise ==
    \A t \in Tasks :
        FailedInTransaction(t) =>
            /\ RolledBackNotCommitted(calls[t].log)
            /\ ~calls[t].committed
            /\ NothingPending
            /\ calls[t].rolledBack = "done" => calls[t].raised = StatementError
            /\ calls[t].rolledBack = "failed" => calls[t].raised = RollbackError
            /\ calls[t].rolledBack # "no"

C1_Witness ==
    \E t \in Tasks :
        /\ FailedInTransaction(t)
        /\ calls[t].rolledBack = "done"
        /\ calls[t].raised = StatementError

PrimaryKeyCount(body) == Cardinality({i \in 1..Len(body) : body[i].v.primary_key})

\* C2: the class statement produces a model class if and only if exactly one
\* field of the body is a primary key; with none, and with two or more, it
\* raises the schema error (RuntimeError) and no class exists.
C2_ExactlyOnePrimaryKey ==
    cls.status # "undefined" =>
        /\ cls.status = "defined" <=> PrimaryKeyCount(decl.body) = 1
        /\ PrimaryKeyCount(decl.body) = 0 => cls = NoClass("error", NoKeyError)
        /\ PrimaryKeyCount(decl.body) >= 2 => cls = NoClass("error", DuplicateKeyError)

C2_Witness ==
    /\ cls.status = "error"
    /\ PrimaryKeyCount(decl.body) >= 2
    /\ cls.err = DuplicateKeyError

\* The value an instance holds for a field once save has filled the defaults in.
Saved(i, c, key) ==
    IF key \in DOMAIN i /\ i[key] # None THEN i[key]
    ELSE MappingOf(c.mappings, key).default.v

\* The instance save is meant to leave in the table: every field, the unset
\* ones at their defaults.
SavedInstance(i, c) ==
    [key \in {c.mappings[n].k : n \in 1..Len(c.mappings)} |-> Saved(i, c, key)]

\* C3: after save() on an instance with any of its fields set, unless the
\* table refuses the row, find(pk) with the saved key returns an instance whose
\* fields equal the saved ones, the unset fields at their defaults.
C3_RoundTrip ==
    (last.op = "save" /\ last.execErr # IntegrityError) =>
        /\ last.err = NoErr
        /\ LET want == SavedInstance(last.before, cls)
               got == find(cls, db, want[cls.primary_key])
           IN  got.found /\ got.instances[1] = want

\* C4: reading a field that is unset and has a default returns the default
\* and stores it in the instance.
C4_DefaultOnRead ==
    (/\ last.op \in {"getattr", "getValueOrDefault"}
     /\ last.key \notin DOMAIN last.before
     /\ MappingOf(cls.mappings, last.key).default.kind # "none") =>
        /\ last.err = NoErr
        /\ last.value = MappingOf(cls.mappings, last.key).default.v
        /\ last.key \in DOMAIN inst
        /\ inst[last.key] = last.value

\* The column of a field: the descriptor's name if present, else the attribute.
EffectiveColumn(body, key) == OrName(MappingOf(body, key).name, key)

EffectiveColumns(body, keys) ==
    [i \in 1..Len(keys) |-> EffectiveColumn(body, keys[i])]

\* The backquoted names of a statement, in order.
NamesOf(sql) == QuotedIn(sql, 1, Len(sql))

\* C5: every statement names the key and every other field by its effective
\* column: the four templates and the statement of find.
C5_EffectiveColumnNames ==
    cls.status = "defined" =>
        LET key == <<EffectiveColumn(decl.body, cls.primary_key)>>
            others == EffectiveColumns(decl.body, cls.fields)
            table == <<cls.table>>
        IN  /\ NamesOf(cls.select) = key \o others \o table
            /\ NamesOf(cls.insert) = table \o key \o others
            /\ NamesOf(cls.update) = table \o others \o key
            /\ NamesOf(cls.delete) = table \o key
            /\ NamesOf(FindStatement(cls)) = key \o others \o table \o key

\* The markers that follow the word limit.
LimitMarkers(sql) ==
    IF IndexOfTok(sql, "limit") = 0 THEN 0
    ELSE CountMarker(SubSeq(sql, IndexOfTok(sql, "limit"), Len(sql)), "?")

\* C6: an integer limit adds one marker bound to it, a pair adds two bound to
\* offset then count, and any other limit given raises ValueError with no
\* statement executed.
C6_LimitShapes ==
    last.op = "findAll" =>
        CASE last.key = "none" ->
                last.executed /\ LimitMarkers(last.sql) = 0
                              /\ last.args = last.argsBefore
          [] last.key \in {"int", "bool"} ->
                last.executed /\ LimitMarkers(last.sql) = 1
                              /\ last.args = last.argsBefore \o last.limit
          [] last.key = "tuple" /\ Len(last.limit) = 2 ->
                last.executed /\ LimitMarkers(last.sql) = 2
                              /\ last.args = last.argsBefore \o last.limit
          [] OTHER -> ~last.executed /\ last.err = ValueError

\* The fields of the model in the order a mutation binds them.
BoundFields(c, op) ==
    CASE op = "save" -> <<c.primary_key>> \o c.fields
      [] op = "update" -> c.fields \o <<c.primary_key>>
      [] OTHER -> <<c.primary_key>>

\* The text a template names a field by.
ColumnText(c, key) ==
    IF key = c.primary_key THEN PkColumn(c.mappings, key)
    ELSE EscapedField(c.mappings, key).s

\* The column names of a template in the order of its markers.
MarkedColumns(sql) == Tail(NamesOf(sql))

ValueOf(i, key) == IF key \in DOMAIN i THEN i[key] ELSE None

\* C8: save, update and remove bind one argument per marker of their
\* template, the j-th argument being the value of the field the j-th marker's
\* column stands for: key then fields for save (len(fields) + 1 markers),
\* fields then key for update, the key alone for remove.
C8_ArgumentsMatchTemplate ==
    (last.op \in {"save", "update", "remove"} /\ last.executed) =>
        LET bound == BoundFields(cls, last.op)
        IN  /\ last.sql = (CASE last.op = "save" -> cls.insert
                             [] last.op = "update" -> cls.update
                             [] OTHER -> cls.delete)
            /\ Len(last.args) = CountMarker(last.sql, "?")
            /\ Len(last.args) = Len(bound)
            /\ last.op = "save" => CountMarker(cls.insert, "?") = Len(cls.fields) + 1
            /\ \A j \in 1..Len(bound) :
                  /\ MarkedColumns(last.sql)[j] = ColumnText(cls, bound[j])
                  /\ last.args[j] = ValueOf(inst, bound[j])

C8_Witness ==
    /\ last.op = "save"
    /\ last.executed
    /\ Len(cls.fields) = 2
    /\ cls.primary_key = "name"
    /\ last.args = <<1, 2, 1>>

\* C9: a save, update or remove whose statement succeeds with a count of
\* affected rows other than 1 returns normally, the mismatch logged as a warning.
C9_SoftMismatch ==
    (/\ last.op \in {"save", "update", "remove"}
     /\ last.executed
     /\ last.execErr = NoErr
     /\ last.rows # 1) =>
        last.err = NoErr /\ last.warned

C9_Witness ==
    /\ last.op = "update"
    /\ last.executed
    /\ last.execErr = NoErr
    /\ last.rows = 0
    /\ last.err = NoErr
    /\ db # EmptyDb

\* C10: findAll leaves the list it is passed as args as it was.
C10_ArgsUnchanged ==
    (last.op = "findAll" /\ last.passed) => callerArgs = last.argsBefore

\* C7: under any interleaving, at most maxsize connections are checked out,
\* a checked out connection belongs to exactly one call in flight, and a call
\* that has returned or raised (or has not acquired yet) holds none.
C7_ScopedExclusiveConnections ==
    /\ Cardinality(CheckedOut(conns)) <= MaxSize
    /\ \A c \in CheckedOut(conns) :
          /\ conns[c].owner \in Tasks
          /\ calls[conns[c].owner].conn = c
    /\ \A t, u \in Tasks :
          (calls[t].conn # 0 /\ calls[t].conn = calls[u].conn) => t = u
    /\ \A t \in Tasks :
          /\ calls[t].conn # 0 =>
                conns[calls[t].conn].state = "used" /\ conns[calls[t].conn].owner = t
          /\ calls[t].pc \in {"idle", "acquire", "done"} =>
                calls[t].conn = 0 /\ \A c \in ConnIds : conns[c].owner # t

C7_Witness ==
    \E t, u \in Tasks :
        /\ calls[t].pc = "done"
        /\ calls[t].raised = RollbackError
        /\ calls[u].conn # 0
        /\ calls[u].pc = "commit"

====
